---------------------------- MODULE Spec2Model ----------------------------
(***************************************************************************)
(* Facelog attendance system (main.py): the daily attendance tracker, the  *)
(* attendance log (attendance.csv), the capture loop generate_frames and   *)
(* the HTTP handlers that read the tracker and the log.                    *)
(*                                                                         *)
(* Dates are day numbers.  The process starts on day 1; day 0 is a day     *)
(* before the process started (rows left in the log by earlier runs).      *)
(* A time of day is a number 0..MaxTime.  datetime.now() is the clock.     *)
(***************************************************************************)
EXTENDS Integers, Sequences, FiniteSets, TLC

\* ------------------------------------------------------------------ bounds
\* last day the clock reaches (days 1..MaxDay)
MaxDay == 2
\* last time of day (times 0..MaxTime)
MaxTime == 1
\* most faces detected in one camera frame
MaxFaces == 2
\* most rows (after the header) of the log found at process start
MaxInitRows == 1
\* capture loops (viewers of /video_feed) that may exist
NumLoops == 2
\* most images in students/ when only the statistics are studied
MaxRoster == 10

\* ------------------------------------------------------- program constants
\* last_checked_date = None: a value that is no date
None == -1
REQUIRED_PASSWORD == "admin@123"
IN_FRAME_FIRST_TIME == "IN_FRAME_FIRST_TIME"
LEFT_FRAME == "LEFT_FRAME"
Present == "Present"
\* the row written at line 38; its Date and Time cells are text, no date
Header == [date |-> None, time |-> None, name |-> "Student Name", status |-> "Status"]

\* file names (minus extension) that can appear in students/
Names == {"Alice", "Bob"}
\* the students/ folder at process start, as the list the loader produces
Galleries == {<< >>, <<"Alice">>, <<"Alice", "Bob">>}
Days == 1..MaxDay
Times == 0..MaxTime
Loops == 1..NumLoops
\* the loop of the first viewer
FirstLoop == 1

VARIABLES
    clock,                  \* datetime.now(): [day, time]
    booted,                 \* the module body (lines 11-46) has run
    file,                   \* ATTENDANCE_FILE: [exists, rows]
    known_face_names,       \* list of names loaded from students/
    marked_today,           \* set of names
    last_checked_date,      \* None or a day
    face_state,             \* dict name -> IN_FRAME_FIRST_TIME | LEFT_FRAME
    pc,                     \* per loop: position in generate_frames
    frame,                  \* per loop: compare_faces result of each face of the frame
    idx,                    \* per loop: faces of the frame already processed
    faces_found_this_frame, \* per loop
    labels_for_frame,       \* per loop: display labels, in face order
    recognized_name,        \* per loop: name being marked
    request,                \* last HTTP request served
    response                \* its response

tracker == <<marked_today, last_checked_date, face_state>>
locals == <<pc, frame, idx, faces_found_this_frame, labels_for_frame,
            recognized_name>>
http == <<request, response>>
vars == <<clock, booted, file, known_face_names, tracker, locals, http>>

\* ------------------------------------------------------------------ helpers
\* the empty dict
EmptyDict == [n \in {} |-> LEFT_FRAME]

\* d[k] = v
DictSet(d, k, v) == [n \in (DOMAIN d) \cup {k} |-> IF n = k THEN v ELSE d[n]]

\* rows a run of this program can have written on or before day d
RowsUpTo(d) == [date : 0..d, time : {0}, name : Names, status : {Present}]

RECURSIVE SeqsUpTo(_, _)
SeqsUpTo(S, n) ==
    IF n = 0 THEN {<< >>}
    ELSE LET shorter == SeqsUpTo(S, n - 1)
         IN  shorter \cup {Append(s, x) : s \in {t \in shorter : Len(t) = n - 1}, x \in S}

\* a log as earlier runs leave it: header, then rows in the order of their
\* dates, one row per (name, date)
WellFormedLog(rows) ==
    /\ \A i, j \in 1..Len(rows) :
          i < j => /\ rows[i].date <= rows[j].date
                   /\ ~(rows[i].date = rows[j].date /\ rows[i].name = rows[j].name)

InitialLogs == {<<Header>> \o s : s \in {t \in SeqsUpTo(RowsUpTo(1), MaxInitRows) : WellFormedLog(t)}}

NoFile == [exists |-> FALSE, rows |-> << >>]

\* the names with a Present row dated d among rows
PresentOn(rows, d) ==
    {rows[i].name : i \in {k \in 1..Len(rows) : rows[k].date = d /\ rows[k].status = Present}}

\* no generator runs for viewer l: none was started ("idle"), or the last
\* one ended after cap.release() ("idle"), returned at line 115 without a
\* camera ("no_camera"), was closed at its yield ("abandoned": its handle
\* is still open) or died on an exception ("raised", and "raised_open" when
\* its handle is still open)
Idle(l) == pc[l] \in {"idle", "no_camera", "abandoned", "raised", "raised_open"}

InitLocals ==
    /\ pc = [l \in Loops |-> "idle"]
    /\ frame = [l \in Loops |-> << >>]
    /\ idx = [l \in Loops |-> 0]
    /\ faces_found_this_frame = [l \in Loops |-> {}]
    /\ labels_for_frame = [l \in Loops |-> << >>]
    /\ recognized_name = [l \in Loops |-> ""]

\* The machine before `python main.py`: the log is absent or was left by
\* earlier runs; nothing of the module has run.
Init ==
    /\ clock = [day |-> 1, time |-> 0]
    /\ booted = FALSE
    /\ file \in {NoFile} \cup {[exists |-> TRUE, rows |-> r] : r \in InitialLogs}
    /\ known_face_names = << >>
    /\ marked_today = {}
    /\ last_checked_date = None
    /\ face_state = EmptyDict
    /\ InitLocals
    /\ request = [route |-> "none"]
    /\ response = [status |-> 0]

\* ------------------------------------------------------------------- clock
\* the clock values that follow c: later the same day, or midnight
Later(c) ==
    (IF c.time < MaxTime THEN {[c EXCEPT !.time = @ + 1]} ELSE {})
    \cup (IF c.day < MaxDay THEN {[day |-> c.day + 1, time |-> 0]} ELSE {})

\* Time passes while the process runs.
Tick ==
    /\ booted
    /\ clock' \in Later(clock)
    /\ UNCHANGED <<booted, file, known_face_names, tracker, locals, http>>

\* ----------------------------------------------------------- module start
\* a start that opens the log with "w" whether or not it exists
CreateAlways(f) == [exists |-> TRUE, rows |-> <<Header>>]

\* lines 34-38: the log is created, with its header, if it is missing
CreateIfMissing(f) == IF ~f.exists THEN [exists |-> TRUE, rows |-> <<Header>>] ELSE f

\* lines 16-46: load the gallery, create the log with a header if it is
\* missing, start with an empty tracker.
Startup ==
    /\ ~booted
    /\ booted' = TRUE
    /\ known_face_names' \in Galleries
    /\ file' = CreateIfMissing(file)
    /\ marked_today' = {}
    /\ last_checked_date' = None
    /\ face_state' = EmptyDict
    /\ UNCHANGED <<clock, locals, http>>

\* ------------------------------------------------- daily attendance tracker
\* a reset that does not rehydrate from the log
load_nothing(f, d) == {}

\* a load that forgets the date filter
load_every_day(f, d) ==
    IF f.exists /\ Len(f.rows) > 0
    THEN LET rows == Tail(f.rows)
         IN  {rows[i].name : i \in {k \in 1..Len(rows) : rows[k].status = Present}}
    ELSE {}

\* load_marked_today_from_csv, lines 55-66: the names of the rows after the
\* first (the header is skipped unread) dated d with status Present.  A file
\* that is absent gives the empty set.
load_marked_today_from_csv(f, d) ==
    IF f.exists /\ Len(f.rows) > 0
    THEN LET rows == Tail(f.rows)
         IN  {rows[i].name : i \in {k \in 1..Len(rows) :
                                      rows[k].date = d /\ rows[k].status = Present}}
    ELSE {}

\* is_already_present_today, line 89
is_already_present_today(name) == name \in marked_today

\* a row whose time is not the time read
AttendanceRow_Midnight(d, t, name) == [date |-> d, time |-> 0, name |-> name, status |-> Present]

\* the row mark_attendance writes, line 102
AttendanceRow(d, t, name) == [date |-> d, time |-> t, name |-> name, status |-> Present]

\* open(ATTENDANCE_FILE, "a") and writerow, lines 100-102
AppendRow(f, row) == [exists |-> TRUE, rows |-> Append(f.rows, row)]

\* -------------------------------------------------------------- recognition
\* compare_faces, line 134: the indices of known faces that match
Matches == SUBSET (1..Len(known_face_names))

\* the frames the camera can deliver, as the matches of their faces
Frames == SeqsUpTo(Matches, MaxFaces)

Min(S) == CHOOSE x \in S : \A y \in S : x <= y

\* lines 137-141: the first matched name, for a face with a match
FirstMatch(m) == known_face_names[Min(m)]

\* the names recognized among the faces of frame fr
RecognizedIn(fr) == {FirstMatch(fr[i]) : i \in {k \in 1..Len(fr) : fr[k] # {}}}

NotAvailable == [text |-> "Not Available", name |-> ""]
PresentLabel(name) == [text |-> "Present: ", name |-> name]
AlreadyPresentLabel(name) == [text |-> "Already Present: ", name |-> name]

\* the two labels of a marked name swapped
LabelOfMarked_Swapped(name) ==
    IF name \in DOMAIN face_state /\ face_state[name] = IN_FRAME_FIRST_TIME
    THEN AlreadyPresentLabel(name)
    ELSE PresentLabel(name)

\* a name without a state is taken as seen for the first time
LabelOfMarked_DefaultFirstTime(name) ==
    IF name \notin DOMAIN face_state \/ face_state[name] = IN_FRAME_FIRST_TIME
    THEN PresentLabel(name)
    ELSE AlreadyPresentLabel(name)

\* lines 151-157: label of a face whose name is already marked today
LabelOfMarked(name) ==
    IF name \in DOMAIN face_state /\ face_state[name] = IN_FRAME_FIRST_TIME
    THEN PresentLabel(name)
    ELSE AlreadyPresentLabel(name)

\* ------------------------------------------------------------ capture loop
\* the generator's frame is gone: its locals with it
EndedAt(l, where) ==
    /\ pc' = [pc EXCEPT ![l] = where]
    /\ frame' = [frame EXCEPT ![l] = << >>]
    /\ idx' = [idx EXCEPT ![l] = 0]
    /\ faces_found_this_frame' = [faces_found_this_frame EXCEPT ![l] = {}]
    /\ labels_for_frame' = [labels_for_frame EXCEPT ![l] = << >>]
    /\ recognized_name' = [recognized_name EXCEPT ![l] = ""]

\* the loop ends after cap.release(), lines 122 and 193
EndLoop(l) == EndedAt(l, "idle")

\* the generator is closed inside the loop: line 193 is not reached
Abandon(l, finalized) == EndedAt(l, IF finalized THEN "idle" ELSE "abandoned")

\* an exception leaves the loop and the generator: line 193 is not reached
Raise(l, finalized) == EndedAt(l, IF finalized THEN "raised" ELSE "raised_open")

Goto(l, where) == pc' = [pc EXCEPT ![l] = where]

\* generate_frames of viewer l is past line 112 and has not ended: it holds
\* the handle cap that cv2.VideoCapture(0) returned
Running(l) == ~Idle(l)

\* the handle that viewer l's latest generator opened is still open
HandleOpen(l) == Running(l) \/ pc[l] \in {"abandoned", "raised_open"}

\* camera handles known to be open in the process
OpenHandles == Cardinality({l \in Loops : HandleOpen(l)})

\* a generator that calls reset_daily_attendance before it tests the camera
video_feed_ResetFirst(l) ==
    /\ booted
    /\ Idle(l)
    /\ \E opened \in BOOLEAN :
          IF opened
          THEN Goto(l, "reset") /\ UNCHANGED tracker
          ELSE /\ Goto(l, "no_camera")
               /\ marked_today' = {}
               /\ face_state' = EmptyDict
               /\ last_checked_date' = clock.day
    /\ UNCHANGED <<clock, booted, file, known_face_names, frame, idx,
                   faces_found_this_frame, labels_for_frame, recognized_name, http>>

\* GET /video_feed, lines 204-210, and the start of its generator, lines
\* 112-115: the loop starts if the camera opens, else it returns at once.
video_feed(l) ==
    /\ booted
    /\ Idle(l)
    /\ \E opened \in BOOLEAN :
          IF opened THEN Goto(l, "reset") ELSE Goto(l, "no_camera")
    /\ UNCHANGED <<clock, booted, file, known_face_names, tracker, frame, idx,
                   faces_found_this_frame, labels_for_frame, recognized_name, http>>

\* a reset that forgets face_state.clear()
ResetCheck_KeepStates(l) ==
    /\ pc[l] = "reset"
    /\ IF last_checked_date # clock.day
       THEN /\ marked_today' = {}
            /\ last_checked_date' = clock.day
            /\ Goto(l, "load")
            /\ UNCHANGED face_state
       ELSE /\ UNCHANGED tracker
            /\ Goto(l, "read")
    /\ UNCHANGED <<clock, booted, file, known_face_names, frame, idx,
                   faces_found_this_frame, labels_for_frame, recognized_name, http>>

\* reset_daily_attendance, lines 75-81: read the date; on a new day clear
\* marked_today and face_state and record the day.  Line 82 follows as Load.
ResetCheck(l) ==
    /\ pc[l] = "reset"
    /\ IF last_checked_date # clock.day
       THEN /\ marked_today' = {}
            /\ face_state' = EmptyDict
            /\ last_checked_date' = clock.day
            /\ Goto(l, "load")
       ELSE /\ UNCHANGED tracker
            /\ Goto(l, "read")
    /\ UNCHANGED <<clock, booted, file, known_face_names, frame, idx,
                   faces_found_this_frame, labels_for_frame, recognized_name, http>>

\* reset_daily_attendance line 82: load_marked_today_from_csv, which reads
\* the date again (line 56)
Load(l) ==
    /\ pc[l] = "load"
    /\ marked_today' = load_marked_today_from_csv(file, clock.day)
    /\ Goto(l, "read")
    /\ UNCHANGED <<clock, booted, file, known_face_names, last_checked_date, face_state,
                   frame, idx, faces_found_this_frame, labels_for_frame,
                   recognized_name, http>>

\* lines 120-130: cap.read(); a failed read ends the loop (break, release);
\* else the faces of the frame are detected and compared
ReadFrame(l) ==
    /\ pc[l] = "read"
    /\ \/ /\ EndLoop(l)
       \/ /\ \E fr \in Frames : frame' = [frame EXCEPT ![l] = fr]
          /\ idx' = [idx EXCEPT ![l] = 0]
          /\ faces_found_this_frame' = [faces_found_this_frame EXCEPT ![l] = {}]
          /\ labels_for_frame' = [labels_for_frame EXCEPT ![l] = << >>]
          /\ Goto(l, "faces")
          /\ UNCHANGED <<recognized_name>>
    /\ UNCHANGED <<clock, booted, file, known_face_names, tracker, http>>

\* lines 133-144 and 149-163: the next face of the frame.  A face without a
\* match is labelled; a recognized one that is marked today is labelled by
\* its state; one that is not goes to mark_attendance.
NextFace(l) ==
    /\ pc[l] = "faces"
    /\ idx[l] < Len(frame[l])
    /\ LET m == frame[l][idx[l] + 1]
       IN  IF m = {}
           THEN /\ labels_for_frame' = [labels_for_frame EXCEPT ![l] = Append(@, NotAvailable)]
                /\ idx' = [idx EXCEPT ![l] = @ + 1]
                /\ UNCHANGED <<pc, faces_found_this_frame, recognized_name>>
           ELSE /\ faces_found_this_frame' =
                       [faces_found_this_frame EXCEPT ![l] = @ \cup {FirstMatch(m)}]
                /\ IF ~is_already_present_today(FirstMatch(m))
                   THEN /\ recognized_name' = [recognized_name EXCEPT ![l] = FirstMatch(m)]
                        /\ Goto(l, "mark")
                        /\ UNCHANGED <<labels_for_frame, idx>>
                   ELSE /\ labels_for_frame' =
                               [labels_for_frame EXCEPT ![l] = Append(@, LabelOfMarked(FirstMatch(m)))]
                        /\ idx' = [idx EXCEPT ![l] = @ + 1]
                        /\ UNCHANGED <<pc, recognized_name>>
    /\ UNCHANGED <<clock, booted, file, known_face_names, tracker, frame, http>>

\* mark_attendance, lines 96-102: the date is read, then the time (the
\* clock may move between the two reads, past midnight too), and the row is
\* appended
MarkAppend(l) ==
    /\ pc[l] = "mark"
    /\ \E now \in {clock} \cup Later(clock) :
          /\ clock' = now
          /\ file' = AppendRow(file, AttendanceRow(clock.day, now.time, recognized_name[l]))
    /\ Goto(l, "mark_add")
    /\ UNCHANGED <<booted, known_face_names, tracker, frame, idx,
                   faces_found_this_frame, labels_for_frame, recognized_name, http>>

\* mark_attendance, line 104
MarkAdd(l) ==
    /\ pc[l] = "mark_add"
    /\ marked_today' = marked_today \cup {recognized_name[l]}
    /\ Goto(l, "set_state")
    /\ UNCHANGED <<clock, booted, file, known_face_names, last_checked_date, face_state,
                   frame, idx, faces_found_this_frame, labels_for_frame,
                   recognized_name, http>>

\* lines 147-148 and 163: the newly marked name enters face_state;
\* recognized_name is rebound before it is read again
SetFirstTime(l) ==
    /\ pc[l] = "set_state"
    /\ face_state' = DictSet(face_state, recognized_name[l], IN_FRAME_FIRST_TIME)
    /\ labels_for_frame' = [labels_for_frame EXCEPT ![l] = Append(@, PresentLabel(recognized_name[l]))]
    /\ idx' = [idx EXCEPT ![l] = @ + 1]
    /\ recognized_name' = [recognized_name EXCEPT ![l] = ""]
    /\ Goto(l, "faces")
    /\ UNCHANGED <<clock, booted, file, known_face_names, marked_today, last_checked_date,
                   frame, faces_found_this_frame, http>>

\* an update that gives a returning name its first-time state back
UpdatedStates_Revert(fs, found) ==
    [n \in DOMAIN fs |-> IF n \in found THEN IN_FRAME_FIRST_TIME ELSE LEFT_FRAME]

\* an update that ignores who was found in the frame
UpdatedStates_IgnoreFound(fs, found) == [n \in DOMAIN fs |-> LEFT_FRAME]

\* lines 166-168: the state of every name after a frame whose names found
\* are `found`
UpdatedStates(fs, found) ==
    [n \in DOMAIN fs |-> IF fs[n] = IN_FRAME_FIRST_TIME /\ n \notin found
                         THEN LEFT_FRAME ELSE fs[n]]

\* lines 166-187: after the last face, update the states; the frame is
\* drawn and encoded
UpdateStates(l) ==
    /\ pc[l] = "faces"
    /\ idx[l] = Len(frame[l])
    /\ face_state' = UpdatedStates(face_state, faces_found_this_frame[l])
    /\ Goto(l, "yield")
    /\ UNCHANGED <<clock, booted, file, known_face_names, marked_today, last_checked_date,
                   frame, idx, faces_found_this_frame, labels_for_frame,
                   recognized_name, http>>

\* line 190: the consumer takes the frame and asks for the next.  The
\* frame's locals are rebound (lines 120-130) before they are read again.
YieldFrame(l) ==
    /\ pc[l] = "yield"
    /\ Goto(l, "reset")
    /\ frame' = [frame EXCEPT ![l] = << >>]
    /\ idx' = [idx EXCEPT ![l] = 0]
    /\ faces_found_this_frame' = [faces_found_this_frame EXCEPT ![l] = {}]
    /\ labels_for_frame' = [labels_for_frame EXCEPT ![l] = << >>]
    /\ UNCHANGED <<clock, booted, file, known_face_names, tracker, 
                   recognized_name, http>>

\* line 190: the consumer disconnects; the generator is closed at its yield
\* and never reaches cap.release() of line 193.  The handle is closed only
\* if the runtime finalizes the VideoCapture object; else it stays open.
Disconnect(l) ==
    /\ pc[l] = "yield"
    /\ \E finalized \in BOOLEAN : Abandon(l, finalized)
    /\ UNCHANGED <<clock, booted, file, known_face_names, tracker, http>>

\* an append that records the name before it writes the row
AppendFails_AddFirst(l) ==
    /\ pc[l] = "mark"
    /\ \E finalized \in BOOLEAN : Raise(l, finalized)
    /\ marked_today' = marked_today \cup {recognized_name[l]}
    /\ UNCHANGED <<clock, booted, file, known_face_names, last_checked_date,
                   face_state, http>>

\* lines 100-102 raise (the log cannot be opened for append, e.g. it is
\* locked or not writable): nothing is written, line 104 and line 147 are
\* not reached, and the exception ends the generator.
AppendFails(l) ==
    /\ pc[l] = "mark"
    /\ \E finalized \in BOOLEAN : Raise(l, finalized)
    /\ UNCHANGED <<clock, booted, file, known_face_names, tracker, http>>

\* lines 55-66 raise while the log is read (line 82): the names of the rows
\* read so far are in marked_today, last_checked_date was set at line 81,
\* and the exception ends the generator.
LoadFails(l) ==
    /\ pc[l] = "load"
    /\ file.exists
    /\ \E k \in 0..Len(file.rows) :
          marked_today' = load_marked_today_from_csv([file EXCEPT !.rows = SubSeq(@, 1, k)], clock.day)
    /\ \E finalized \in BOOLEAN : Raise(l, finalized)
    /\ UNCHANGED <<clock, booted, file, known_face_names, last_checked_date,
                   face_state, http>>

generate_frames(l) ==
    \/ ResetCheck(l) \/ Load(l) \/ ReadFrame(l) \/ NextFace(l)
    \/ MarkAppend(l) \/ MarkAdd(l) \/ SetFirstTime(l) \/ UpdateStates(l)
    \/ YieldFrame(l) \/ Disconnect(l)

\* ------------------------------------------------------------ HTTP surface
\* request.args.get("pwd"): << >> when the parameter is missing
PwdArgs == {<< >>, <<"">>, <<REQUIRED_PASSWORD>>, <<"Admin@123">>}

\* a comparison of the password that ignores case
DownloadResponse_AnyCase(args, f) ==
    IF args = << >> \/ args[1] = ""
    THEN [status |-> 400, body |-> "error: No password provided."]
    ELSE IF args[1] \in {REQUIRED_PASSWORD, "Admin@123"}
         THEN IF f.exists
              THEN [status |-> 200, body |-> "send_file"]
              ELSE [status |-> 404, body |-> "message: No attendance records available!"]
         ELSE [status |-> 401, body |-> "error: Incorrect password."]

\* download_csv, lines 218-229
DownloadResponse(args, f) ==
    IF args = << >> \/ args[1] = ""
    THEN [status |-> 400, body |-> "error: No password provided."]
    ELSE IF args[1] = REQUIRED_PASSWORD
         THEN IF f.exists
              THEN [status |-> 200, body |-> "send_file"]
              ELSE [status |-> 404, body |-> "message: No attendance records available!"]
         ELSE [status |-> 401, body |-> "error: Incorrect password."]

download_csv ==
    /\ booted
    /\ \E args \in PwdArgs :
          /\ request' = [route |-> "/download_csv", pwd |-> args]
          /\ response' = DownloadResponse(args, file)
    /\ UNCHANGED <<clock, booted, file, known_face_names, tracker, locals>>

\* attendance_stats, lines 238-240
StatsResponse(known, marked) ==
    [status |-> 200, total_students |-> Len(known), present_today |-> Cardinality(marked)]

attendance_stats ==
    /\ booted
    /\ request' = [route |-> "/attendance_stats"]
    /\ response' = StatsResponse(known_face_names, marked_today)
    /\ UNCHANGED <<clock, booted, file, known_face_names, tracker, locals>>

\* A quotient of two whole numbers in lowest terms: the value that Python's
\* true division and multiplication of lines 248-249 compute, before the
\* rounding of the floating-point result.
RECURSIVE Gcd(_, _)
Gcd(a, b) == IF b = 0 THEN a ELSE Gcd(b, a % b)

Ratio(n, d) == LET g == Gcd(n, d) IN [num |-> n \div g, den |-> d \div g]

\* present / total_students, line 248
TrueDiv(a, b) == Ratio(a, b)

\* ... * 100, line 248
Mul(r, k) == Ratio(r.num * k, r.den)

\* the share of the people who are absent
ExtendedResponse_OfAbsent(known, marked) ==
    LET total_students == Len(known)
        present == Cardinality(marked)
    IN  [status |-> 200, total_students |-> total_students, present |-> present,
         absent |-> total_students - present,
         percentage |-> IF total_students > 0
                        THEN Mul(TrueDiv(total_students - present, total_students), 100)
                        ELSE Ratio(0, 1)]

\* extended_attendance, lines 245-254
ExtendedResponse(known, marked) ==
    LET total_students == Len(known)
        present == Cardinality(marked)
    IN  [status |-> 200, total_students |-> total_students, present |-> present,
         absent |-> total_students - present,
         percentage |-> IF total_students > 0
                        THEN Mul(TrueDiv(present, total_students), 100)
                        ELSE Ratio(0, 1)]

extended_attendance ==
    /\ booted
    /\ request' = [route |-> "/extended_attendance"]
    /\ response' = ExtendedResponse(known_face_names, marked_today)
    /\ UNCHANGED <<clock, booted, file, known_face_names, tracker, locals>>

\* ------------------------------------------------------------ specification
\* one viewer at a time: a capture loop starts only when none is running
SingleViewer == video_feed(FirstLoop)

Capture == generate_frames(FirstLoop)

\* the tracker, the log and one capture loop
Next ==
    \/ Tick
    \/ Startup
    \/ SingleViewer
    \/ Capture

Spec == Init /\ [][Next]_vars

\* the same with the HTTP handlers that read the tracker and the log
NextHttp ==
    \/ Next
    \/ download_csv
    \/ attendance_stats
    \/ extended_attendance

SpecHttp == Init /\ [][NextHttp]_vars

\* The log is a file of the machine: someone may remove it while the
\* process runs (the case download_csv tests at line 225).
RemoveLogFile ==
    /\ booted
    /\ file.exists
    /\ file' = NoFile
    /\ UNCHANGED <<clock, booted, known_face_names, tracker, locals, http>>

\* the tracker, the log, one capture loop, the download handler and the
\* removal of the log
NextFs ==
    \/ Next
    \/ download_csv
    \/ RemoveLogFile

SpecFs == Init /\ [][NextFs]_vars

\* One capture loop at a time, on a machine whose log can fail to open, to
\* be read or to be appended to.
NextIo ==
    \/ Next
    \/ AppendFails(FirstLoop)
    \/ LoadFails(FirstLoop)

SpecIo == Init /\ [][NextIo]_vars

\* Several viewers: Flask serves each GET /video_feed on a thread of its
\* own, each with its own generator over the module's globals; the steps of
\* the generators interleave.
AnyViewer == \E l \in Loops : video_feed(l)

AnyCapture == \E l \in Loops : generate_frames(l)

\* The process has started with one image in students/ and a log that is
\* new or was left by earlier runs.
InitMulti ==
    /\ clock = [day |-> 1, time |-> 0]
    /\ booted = TRUE
    /\ file \in {[exists |-> TRUE, rows |-> r] : r \in InitialLogs}
    /\ known_face_names = <<"Alice">>
    /\ marked_today = {}
    /\ last_checked_date = None
    /\ face_state = EmptyDict
    /\ InitLocals
    /\ request = [route |-> "none"]
    /\ response = [status |-> 0]

NextMulti ==
    \/ Tick
    \/ AnyViewer
    \/ AnyCapture

SpecMulti == InitMulti /\ [][NextMulti]_vars

\* The statistics alone, for classes larger than Galleries holds: the
\* process has started with n images in students/, and a capture loop has
\* rehydrated the first k of these names from today's log.
Students == <<"Alice", "Bob", "Chitra", "Dev", "Esha", "Farid",
              "Gita", "Hari", "Indu", "Jai", "Kiran", "Lata">>

Roster(n) == SubSeq(Students, 1, n)

RosterLog(k) == <<Header>> \o [i \in 1..k |-> [date |-> 1, time |-> 0, name |-> Students[i], status |-> Present]]

InitStats ==
    /\ clock = [day |-> 1, time |-> 0]
    /\ booted = TRUE
    /\ \E n \in 0..MaxRoster : \E k \in 0..n :
          /\ known_face_names = Roster(n)
          /\ marked_today = {Students[i] : i \in 1..k}
          /\ file = [exists |-> TRUE, rows |-> RosterLog(k)]
    /\ last_checked_date = 1
    /\ face_state = EmptyDict
    /\ InitLocals
    /\ request = [route |-> "none"]
    /\ response = [status |-> 0]

NextStats == extended_attendance

SpecStats == InitStats /\ [][NextStats]_vars

\* ------------------------------------------------------------------ claims
FirstSeen(n) == n \in DOMAIN face_state /\ face_state[n] = IN_FRAME_FIRST_TIME
Departed(n) == n \in DOMAIN face_state /\ face_state[n] = LEFT_FRAME

\* rows i < j of the log that are Present records of one (name, date)
DuplicatePresent(rows) ==
    \E i, j \in 1..Len(rows) :
        /\ i < j
        /\ rows[i].status = Present /\ rows[j].status = Present
        /\ rows[i].name = rows[j].name /\ rows[i].date = rows[j].date

\* C1: with one capture loop at a time and a log that starts without
\* duplicates, the log never holds two Present records of one (name, date),
\* and mark_attendance is entered only for a name that is not in
\* marked_today.
C1_OnePresentPerNameAndDay ==
    /\ ~DuplicatePresent(file.rows)
    /\ \A l \in Loops : pc[l] = "mark" => recognized_name[l] \notin marked_today

\* C1 witness: midnight fell between reset_daily_attendance and
\* mark_attendance: a row dated day 2 was appended while last_checked_date
\* is still day 1, for a name that also has a row of day 1.
C1_Witness ==
    /\ pc[FirstLoop] = "mark_add"
    /\ last_checked_date = 1
    /\ file.rows[Len(file.rows)] = AttendanceRow(2, 0, recognized_name[FirstLoop])
    /\ recognized_name[FirstLoop] \in PresentOn(file.rows, 1)

\* C2: a name whose state is LEFT_FRAME keeps it in every step that leaves
\* last_checked_date unchanged (it never becomes IN_FRAME_FIRST_TIME again
\* that day); it loses it only in the step of a day-rollover reset, which
\* empties face_state.
C2_DepartedStays ==
    [][\A n \in Names :
          Departed(n) =>
              IF last_checked_date' = last_checked_date
              THEN n \in DOMAIN face_state' /\ face_state'[n] = LEFT_FRAME
              ELSE face_state' = EmptyDict /\ last_checked_date' = clock.day]_vars

\* C2 witness: a departed name has been recognized again in the frame just
\* processed and is still departed.
C2_Witness ==
    /\ pc[FirstLoop] = "yield"
    /\ Departed("Alice")
    /\ "Alice" \in faces_found_this_frame[FirstLoop]

\* C3: a reset_daily_attendance that reads a date other than
\* last_checked_date sets last_checked_date to that date, empties
\* face_state, and its load leaves in marked_today exactly the names with a
\* Present record dated the day the load reads; one that reads
\* last_checked_date changes nothing.
C3_ResetRehydrates ==
    [][\A l \in Loops :
          /\ (pc[l] = "reset" /\ pc'[l] # "reset") =>
                 IF last_checked_date = clock.day
                 THEN pc'[l] = "read" /\ UNCHANGED <<tracker, file>>
                 ELSE /\ pc'[l] = "load"
                      /\ last_checked_date' = clock.day
                      /\ face_state' = EmptyDict
          /\ (pc[l] = "load" /\ pc'[l] # "load") =>
                 /\ pc'[l] = "read"
                 /\ marked_today' = PresentOn(file.rows, clock.day)
                 /\ face_state' = EmptyDict
                 /\ UNCHANGED <<last_checked_date, file>>]_vars

\* C3 witness: the reset has crossed into day 2; Alice, whose only record
\* is of day 1, is not in marked_today, and Bob, who has one of day 2, is.
C3_Witness ==
    /\ pc[FirstLoop] = "read"
    /\ last_checked_date = 2 /\ clock.day = 2
    /\ "Alice" \in PresentOn(file.rows, 1) \ PresentOn(file.rows, 2)
    /\ marked_today = {"Bob"}

\* the loop is between frames: not started, at the top of the loop, after
\* the reset, or suspended at its yield
AtFrameBoundary(l) == Idle(l) \/ pc[l] \in {"reset", "read", "yield"}

\* C4: at frame boundaries and after resets, every name with an entry in
\* face_state is in marked_today.
C4_FaceStateWithinMarked ==
    (\A l \in Loops : AtFrameBoundary(l)) => DOMAIN face_state \subseteq marked_today

\* C4 witness: after the reset of day 2, a frame has been processed and
\* face_state holds a name.
C4_Witness ==
    /\ pc[FirstLoop] = "yield"
    /\ last_checked_date = 2
    /\ face_state # EmptyDict
    /\ PresentOn(file.rows, 1) # {}

\* loop l takes the step that processes the next face of its frame
FaceStep(l) ==
    /\ pc[l] = "faces" /\ idx[l] < Len(frame[l])
    /\ (pc'[l] # pc[l] \/ idx'[l] # idx[l])

\* C6: the label of a face is decided by the daily state when the face is
\* processed.  No match: "Not Available", no state changed.  Name not in
\* marked_today: mark_attendance is entered for it, and the label appended
\* when it returns is "Present: name".  Name in marked_today with state
\* IN_FRAME_FIRST_TIME: "Present: name"; with state LEFT_FRAME: "Already
\* Present: name"; in both cases nothing is appended to the log.
C6_LabelByDailyState ==
    [][\A l \in Loops :
          /\ FaceStep(l) =>
                LET m == frame[l][idx[l] + 1]
                    name == FirstMatch(m)
                    labelled(lb) == /\ labels_for_frame'[l] = Append(labels_for_frame[l], lb)
                                    /\ idx'[l] = idx[l] + 1
                                    /\ pc'[l] = "faces"
                                    /\ UNCHANGED <<tracker, file>>
                IN  IF m = {} THEN labelled(NotAvailable)
                    ELSE IF name \notin marked_today
                         THEN /\ pc'[l] = "mark" /\ recognized_name'[l] = name
                              /\ labels_for_frame'[l] = labels_for_frame[l]
                         ELSE IF FirstSeen(name) THEN labelled(PresentLabel(name))
                         ELSE IF Departed(name) THEN labelled(AlreadyPresentLabel(name))
                         ELSE idx'[l] = idx[l] + 1 /\ UNCHANGED <<tracker, file>>
          /\ (pc[l] = "set_state" /\ pc'[l] # "set_state") =>
                /\ labels_for_frame'[l] = Append(labels_for_frame[l], PresentLabel(recognized_name[l]))
                /\ idx'[l] = idx[l] + 1
                /\ pc'[l] = "faces"]_vars

\* C6 witness: one frame with a newly marked name labelled "Present" and a
\* departed name labelled "Already Present".
C6_Witness ==
    /\ pc[FirstLoop] = "yield"
    /\ labels_for_frame[FirstLoop] = <<PresentLabel("Bob"), AlreadyPresentLabel("Alice")>>
    /\ Departed("Alice")

\* loop l is between the read of a frame and its yield
InFrame(l) == pc[l] \in {"faces", "mark", "mark_add", "set_state"}

\* C7: the step that ends a frame turns every IN_FRAME_FIRST_TIME name that
\* was not recognized in the frame into LEFT_FRAME and leaves every other
\* entry as it is (the names found are exactly those recognized in the
\* frame); before it, the only change of face_state during the frame is
\* the entry, as IN_FRAME_FIRST_TIME, of a name that had no entry and has
\* just been marked present.
C7_FrameEffectOnStates ==
    [][\A l \in Loops :
          /\ (pc[l] = "faces" /\ pc'[l] = "yield") =>
                /\ faces_found_this_frame[l] = RecognizedIn(frame[l])
                /\ DOMAIN face_state' = DOMAIN face_state
                /\ \A n \in DOMAIN face_state :
                      face_state'[n] =
                          IF face_state[n] = IN_FRAME_FIRST_TIME /\ n \notin RecognizedIn(frame[l])
                          THEN LEFT_FRAME ELSE face_state[n]
          /\ (InFrame(l) /\ pc'[l] # "yield" /\ face_state' # face_state) =>
                /\ pc[l] = "set_state"
                /\ recognized_name[l] \notin DOMAIN face_state
                /\ recognized_name[l] \in marked_today
                /\ file.rows[Len(file.rows)].name = recognized_name[l]
                /\ face_state' = DictSet(face_state, recognized_name[l], IN_FRAME_FIRST_TIME)]_vars

\* C7 witness: after a frame that showed Alice and not Bob, both marked
\* earlier: Alice is still first-time, Bob has left.
C7_Witness ==
    /\ pc[FirstLoop] = "yield"
    /\ RecognizedIn(frame[FirstLoop]) = {"Alice"}
    /\ FirstSeen("Alice")
    /\ Departed("Bob")

\* C8: mark_attendance is entered for a name outside marked_today; it
\* appends exactly one row (the date read, the time read, the name,
\* Present) to the log and then adds the name to marked_today, so the name
\* is in marked_today afterwards and no other membership changes.
C8_MarkAttendance ==
    [][\A l \in Loops :
          /\ (pc[l] = "mark" /\ pc'[l] # "mark") =>
                /\ ~is_already_present_today(recognized_name[l])
                /\ pc'[l] = "mark_add"
                /\ file'.exists
                /\ file'.rows = Append(file.rows,
                       [date |-> clock.day, time |-> clock'.time,
                        name |-> recognized_name[l], status |-> Present])
                /\ UNCHANGED tracker
          /\ (pc[l] = "mark_add" /\ pc'[l] # "mark_add") =>
                /\ recognized_name[l] \notin marked_today
                /\ marked_today' = marked_today \cup {recognized_name[l]}
                /\ UNCHANGED <<file, last_checked_date, face_state>>]_vars

\* C8 witness: mark_attendance has returned for Bob at time 1 while Alice
\* was already marked.
C8_Witness ==
    /\ pc[FirstLoop] = "set_state"
    /\ recognized_name[FirstLoop] = "Bob"
    /\ marked_today = {"Alice", "Bob"}
    /\ file.rows[Len(file.rows)] = AttendanceRow(clock.day, 1, "Bob")

\* an HTTP request is served in this step
Served(route) == request'.route = route /\ <<request', response'>> # <<request, response>>

\* C5: whenever /attendance_stats or /extended_attendance is queried after
\* process start, the present count it reports is the number of distinct
\* names with a Present record dated today in the log.
C5_StatsFollowLog ==
    [][/\ Served("/attendance_stats") =>
             response'.present_today = Cardinality(PresentOn(file.rows, clock.day))
       /\ Served("/extended_attendance") =>
             response'.present = Cardinality(PresentOn(file.rows, clock.day))]_vars

\* C9: no step removes, reorders or modifies a row of the log: the log of
\* the next state starts with the rows of this one (process start with an
\* existing log, frames, mark_attendance, resets, stats and downloads).
C9_LogAppendOnly ==
    [][file.exists =>
          /\ file'.exists
          /\ Len(file'.rows) >= Len(file.rows)
          /\ SubSeq(file'.rows, 1, Len(file.rows)) = file.rows]_vars

\* C9 witness: the log found at process start, with a row of an earlier
\* day, has grown by rows of both names and has been downloaded.
C9_Witness ==
    /\ request.route = "/download_csv" /\ response.status = 200
    /\ Len(file.rows) >= 4
    /\ file.rows[1] = Header
    /\ file.rows[2].date = 0
    /\ last_checked_date = 2

\* C10 as stated: a missing pwd gives 400, a pwd that is present and
\* differs from the secret gives 401, the secret gives the file or 404, and
\* the file is sent only for the secret.
C10_AsStated ==
    request.route = "/download_csv" =>
        /\ request.pwd = << >> => response.status = 400
        /\ (request.pwd # << >> /\ request.pwd # <<REQUIRED_PASSWORD>>) => response.status = 401
        /\ request.pwd = <<REQUIRED_PASSWORD>> => response.status \in {200, 404}
        /\ response.body = "send_file" => request.pwd = <<REQUIRED_PASSWORD>>

\* C10 amended: GET /download_csv changes no state and has four outcomes:
\* pwd missing or empty -> 400; pwd non-empty and different from the secret
\* -> 401; pwd equal to the secret and the log exists -> the file (200);
\* pwd equal to the secret and no log -> 404.  The file is sent only when
\* pwd equals the secret exactly.
C10_DownloadOutcomes ==
    [][Served("/download_csv") =>
          LET pwd == request'.pwd
          IN  /\ response'.status =
                    IF pwd = << >> \/ pwd = <<"">> THEN 400
                    ELSE IF pwd # <<REQUIRED_PASSWORD>> THEN 401
                    ELSE IF file.exists THEN 200 ELSE 404
              /\ response'.body = "send_file" <=> response'.status = 200
              /\ UNCHANGED <<clock, booted, file, known_face_names, tracker, locals>>]_vars

\* C10 witness: the secret was given after the log had been removed: 404.
C10_Witness ==
    /\ request.route = "/download_csv"
    /\ request.pwd = <<REQUIRED_PASSWORD>>
    /\ response.status = 404
    /\ ~file.exists
\* C11: whenever /extended_attendance answers, total_students is the number
\* of known people, present is the size of marked_today, absent is
\* total_students - present, and percentage is present * 100 /
\* total_students when total_students > 0 and exactly 0 when it is 0; with
\* 10 known and 3 present, absent is 7 and percentage is 30.
C11_ExtendedStats ==
    [][Served("/extended_attendance") =>
          LET total == Len(known_face_names)
              present == Cardinality(marked_today)
          IN  /\ response'.status = 200
              /\ response'.total_students = total
              /\ response'.present = present
              /\ response'.absent = total - present
              /\ total > 0 => response'.percentage = Ratio(present * 100, total)
              /\ total = 0 => response'.percentage = Ratio(0, 1)
              /\ (total = 10 /\ present = 3) =>
                    /\ response'.absent = 7
                    /\ response'.percentage = Ratio(30, 1)]_vars

\* 10 known, 3 present, and the answer given
C11_Witness ==
    /\ request.route = "/extended_attendance"
    /\ Len(known_face_names) = 10
    /\ Cardinality(marked_today) = 3
    /\ response.absent = 7
    /\ response.percentage = Ratio(30, 1)

\* C13: a capture loop whose camera cannot be opened exits without producing
\* a frame and without changing marked_today, face_state, last_checked_date
\* or the log.
C13_NoCameraNoEffect ==
    [][\A l \in Loops :
          (pc'[l] = "no_camera" /\ pc[l] # "no_camera") =>
              /\ UNCHANGED <<marked_today, face_state, last_checked_date, file>>
              /\ labels_for_frame'[l] = << >>
              /\ frame'[l] = << >>]_vars

\* a loop has returned at line 115 on a day whose reset was still due, with
\* yesterday's daily state in place
C13_Witness ==
    /\ pc[FirstLoop] = "no_camera"
    /\ marked_today # {}
    /\ DOMAIN face_state # {}
    /\ last_checked_date # clock.day

\* C18: every camera handle opened by a capture loop is released when that
\* loop ends (failed frame read, or consumer gone at the yield): no ended
\* loop leaves its handle open.
C18_HandlesReleased == \A l \in Loops : Idle(l) => ~HandleOpen(l)

\* C12: for any sequence of GET /video_feed requests, also a second viewer
\* connecting while the first is streaming, at most one generate_frames
\* loop is running and at most one camera handle is open.
C12_SingleLoopSingleHandle ==
    /\ Cardinality({l \in Loops : Running(l)}) <= 1
    /\ OpenHandles <= 1

\* the Present records of name n dated d in the log
PresentRecords(n, d) ==
    {i \in 1..Len(file.rows) :
        /\ file.rows[i].status = Present
        /\ file.rows[i].name = n
        /\ file.rows[i].date = d}

\* C14: with two or more /video_feed loops running at once over the shared
\* marked_today, face_state and last_checked_date, the log still never holds
\* two Present records of one (name, date), for every interleaving of their
\* steps.
C14_OnePresentConcurrent ==
    \A n \in Names : \A d \in 0..MaxDay : Cardinality(PresentRecords(n, d)) <= 1

\* the append of mark_attendance has raised in this step of loop l
AppendRaised(l) == pc[l] = "mark" /\ pc'[l] \in {"raised", "raised_open"}

\* C15: when the append of mark_attendance fails, the failure leaves the
\* capture loop (the loop ends) and the daily state is as before: the name
\* is not added to marked_today and gets no face_state entry; hence every
\* name in marked_today has a Present record in the log, written on or after
\* the day of the last reset.
C15_FailedAppendLeavesState ==
    /\ [][\A l \in Loops :
            AppendRaised(l) =>
                /\ Idle(l)'
                /\ UNCHANGED <<marked_today, face_state, last_checked_date, file>>
                /\ recognized_name[l] \notin marked_today'
                /\ recognized_name[l] \notin DOMAIN face_state']_vars
    /\ [](\A n \in marked_today :
            \E d \in 0..MaxDay : d >= last_checked_date /\ PresentRecords(n, d) # {})

\* an append has failed for a name that today's log does not hold, while
\* another name is marked
C15_Witness ==
    /\ pc[FirstLoop] \in {"raised", "raised_open"}
    /\ last_checked_date = clock.day
    /\ "Bob" \notin marked_today
    /\ PresentRecords("Bob", clock.day) = {}
    /\ "Alice" \in marked_today
    /\ FirstSeen("Alice")

\* C16: with one capture loop at a time, whenever last_checked_date is the
\* current date and no loop is inside a reset or a marking, every name with
\* a Present record dated today is in marked_today; also after a reset whose
\* read of the log failed.
C16_MarkedCoversLog ==
    ((\A l \in Loops : AtFrameBoundary(l)) /\ last_checked_date = clock.day)
        => PresentOn(file.rows, clock.day) \subseteq marked_today

\* C17: in every reachable state marked_today is a subset of the known
\* names, so /extended_attendance never reports a negative absent count or
\* a percentage above 100; also after a rehydration from a log written while
\* the gallery held other names.
C17_MarkedWithinKnown ==
    LET known == {known_face_names[i] : i \in 1..Len(known_face_names)}
        answer == ExtendedResponse(known_face_names, marked_today)
    IN  /\ marked_today \subseteq known
        /\ answer.absent >= 0
        /\ answer.percentage.num <= 100 * answer.percentage.den

\* name n is in marked_today because the log held it at the last reset: it
\* has no face_state entry and no loop is between marking it and line 147
Rehydrated(n) ==
    /\ n \in marked_today
    /\ n \notin DOMAIN face_state
    /\ \A l \in Loops : ~(pc[l] = "set_state" /\ recognized_name[l] = n)

\* C19: a name that is in marked_today only by rehydration is labelled
\* "Already Present: name" at every sighting that day, the first included,
\* never "Present: name"; while the day of the last reset stays the same it
\* stays in marked_today, gets no face_state entry and no new log record.
C19_RehydratedAlreadyPresent ==
    [][\A n \in Names :
          (Rehydrated(n) /\ last_checked_date' = last_checked_date) =>
              /\ Rehydrated(n)'
              /\ \A d \in 0..MaxDay : PresentRecords(n, d)' = PresentRecords(n, d)
              /\ \A l \in Loops :
                    (FaceStep(l) /\ frame[l][idx[l] + 1] # {}
                       /\ FirstMatch(frame[l][idx[l] + 1]) = n) =>
                        /\ labels_for_frame'[l] = Append(labels_for_frame[l], AlreadyPresentLabel(n))
                        /\ pc'[l] = "faces"
                        /\ UNCHANGED <<tracker, file>>]_vars

\* a frame showed a rehydrated name twice, and both faces were labelled
\* "Already Present"
C19_Witness ==
    /\ pc[FirstLoop] = "yield"
    /\ Rehydrated("Alice")
    /\ labels_for_frame[FirstLoop] = <<AlreadyPresentLabel("Alice"), AlreadyPresentLabel("Alice")>>

=========================================================================
